---- MODULE Spec2Model ----
(***************************************************************************)
(* A model of aiographite/aiographitesend.py: the two wire protocols       *)
(* (PlaintextProtocol, PickleProtocol) and the AIOGraphite client that     *)
(* owns one asyncio StreamWriter.                                          *)
(*                                                                         *)
(* Conventions                                                             *)
(*  - a Python str is a sequence of code points, a bytes object a sequence *)
(*    of integers 0..255;                                                  *)
(*  - Python None for a timestamp is the integer None (= -1);              *)
(*  - an attribute of the object is "unset" while no assignment to it has  *)
(*    run, "None" after `self.writer = None`, "open" while it holds the    *)
(*    StreamWriter that asyncio.open_connection returned;                  *)
(*  - a coroutine runs atomically from one await to the next (asyncio is   *)
(*    cooperative), so every action is the code between two suspension     *)
(*    points;                                                              *)
(*  - what asyncio.open_connection, StreamWriter.close and the peer do is  *)
(*    the environment: their outcomes are chosen with \E.                  *)
(***************************************************************************)
EXTENDS Integers, Sequences, FiniteSets, TLC

\* ------------------------------------------------------------------ bounds
NumCallers == 2       \* concurrent tasks sharing the one client
MaxCalls == 3         \* calls issued on the client in one behaviour
MaxTime == 2          \* largest value the clock reaches
MaxLen == 2           \* longest dataset passed to a batch operation

Callers == 1..NumCallers

None == -1

\* ------------------------------------------------------------ Python text
RECURSIVE Digits(_)
Digits(n) == IF n < 10 THEN <<48 + n>> ELSE Digits(n \div 10) \o <<48 + (n % 10)>>

\* str(int)
Str(n) == IF n < 0 THEN <<45>> \o Digits(0 - n) ELSE Digits(n)

RECURSIVE Join(_, _)
\* sep.join(parts)
Join(parts, sep) ==
    IF Len(parts) = 0 THEN <<>>
    ELSE IF Len(parts) = 1 THEN parts[1]
    ELSE parts[1] \o sep \o Join(Tail(parts), sep)

\* str.encode('ascii'): a code point above 127 raises UnicodeEncodeError
AsciiEncode_Ignore(s) == [exc |-> "", val |-> SelectSeq(s, LAMBDA ch : ch < 128)]

AsciiEncode(s) ==
    IF \E i \in 1..Len(s) : s[i] > 127
    THEN [exc |-> "UnicodeEncodeError", val |-> <<>>]
    ELSE [exc |-> "", val |-> s]

RECURSIVE Utf8Encode(_)
\* str.encode('utf-8') for code points below 0x800
Utf8Encode(s) ==
    IF Len(s) = 0 THEN <<>>
    ELSE (IF s[1] < 128 THEN <<s[1]>>
          ELSE <<192 + (s[1] \div 64), 128 + (s[1] % 64)>>) \o Utf8Encode(Tail(s))

\* n as k little-endian bytes
RECURSIVE LittleEndian(_, _)
LittleEndian(n, k) == IF k = 0 THEN <<>> ELSE <<n % 256>> \o LittleEndian(n \div 256, k - 1)

StructPackL_LittleEndian(n) ==
    <<n % 256, (n \div 256) % 256, (n \div 65536) % 256, (n \div 16777216) % 256>>

\* struct.pack("!L", n): 4 bytes, most significant first
StructPackL(n) ==
    <<(n \div 16777216) % 256, (n \div 65536) % 256, (n \div 256) % 256, n % 256>>

\* ------------------------------------------------------- PlaintextProtocol
Plaintext_data_formate_function_Swapped(metric, value, timestamp) ==
    Join(<<metric, Str(timestamp), Str(value)>>, <<32>>) \o <<10>>

Plaintext_data_formate_function(metric, value, timestamp) ==
    Join(<<metric, Str(value), Str(timestamp)>>, <<32>>) \o <<10>>

Plaintext_generate_message_function(listOfPlaintext) ==
    AsciiEncode(Join(listOfPlaintext, <<>>))

\* ---------------------------------------------------------- PickleProtocol
Pickle_data_formate_function(metric, value, timestamp) ==
    <<metric, <<timestamp, value>>>>

\* pickle protocol 2, an int: BININT1 / BININT2 / BININT (four bytes, two's
\* complement: \div rounds down and % is never negative)
PickleInt(v) ==
    IF v >= 0 /\ v < 256 THEN <<75, v>>
    ELSE IF v >= 0 /\ v < 65536 THEN <<77>> \o LittleEndian(v, 2)
    ELSE <<74>> \o LittleEndian(v, 4)

\* pickle protocol 2, a str stored in memo slot m: BINUNICODE, BINPUT
PickleStr(s, m) ==
    <<88>> \o LittleEndian(Len(Utf8Encode(s)), 4) \o Utf8Encode(s) \o <<113, m>>

\* one (metric, (timestamp, value)) tuple; its str and its two tuples take
\* the memo slots m, m+1, m+2 (the objects of a list are distinct objects)
PickleUnit(u, m) ==
    PickleStr(u[1], m) \o PickleInt(u[2][1]) \o PickleInt(u[2][2])
        \o <<134, 113, m + 1>> \o <<134, 113, m + 2>>

RECURSIVE PickleUnits(_, _)
PickleUnits(l, m) ==
    IF Len(l) = 0 THEN <<>> ELSE PickleUnit(l[1], m) \o PickleUnits(Tail(l), m + 3)

\* pickle.dumps(list, protocol=2): PROTO 2, EMPTY_LIST, BINPUT 0, the items
\* (one item: item APPEND; several: MARK items APPENDS), STOP
PickleDumps(l) ==
    <<128, 2, 93, 113, 0>>
    \o (IF Len(l) = 0 THEN <<>>
        ELSE IF Len(l) = 1 THEN PickleUnits(l, 1) \o <<97>>
        ELSE <<40>> \o PickleUnits(l, 1) \o <<101>>)
    \o <<46>>

Pickle_generate_message_function(listOfMetricTuples) ==
    LET payload == PickleDumps(listOfMetricTuples)
        header  == StructPackL(Len(payload))
    IN [exc |-> "", val |-> header \o payload]

\* ------------------------------------------------- dispatch on self.protocol
Protocols == {"PickleProtocol", "PlaintextProtocol"}

data_formate_function(p, metric, value, timestamp) ==
    IF p = "PlaintextProtocol"
    THEN Plaintext_data_formate_function(metric, value, timestamp)
    ELSE Pickle_data_formate_function(metric, value, timestamp)

generate_message_function(p, l) ==
    IF p = "PlaintextProtocol"
    THEN Plaintext_generate_message_function(l)
    ELSE Pickle_generate_message_function(l)

\* ------------------------------------------------------------ GraphiteEncoder
\* letters, digits, '-' pass; any other code point c becomes '_' hex(c) '_'
HexDigit(d) == IF d < 10 THEN 48 + d ELSE 87 + d

EscapeChar(c) ==
    IF (c >= 48 /\ c <= 57) \/ (c >= 65 /\ c <= 90) \/ (c >= 97 /\ c <= 122) \/ c = 45
    THEN <<c>>
    ELSE <<95, HexDigit((c \div 16) % 16), HexDigit(c % 16), 95>>

RECURSIVE GraphiteEncoder_encode(_)
GraphiteEncoder_encode(dir_name) ==
    IF Len(dir_name) = 0 THEN <<>>
    ELSE EscapeChar(dir_name[1]) \o GraphiteEncoder_encode(Tail(dir_name))

\* ------------------------------------------------------ AIOGraphite helpers
\* ".".join([GraphiteEncoder.encode(dir_name) for dir_name in metric_dir_list])
to_graphite_valid_metric_name(metric_dir_list) ==
    Join([i \in 1..Len(metric_dir_list) |-> GraphiteEncoder_encode(metric_dir_list[i])], <<46>>)

\* the names _generate_message_for_data_list binds: its parameters and the
\* targets of its assignments
GenerateLocals ==
    {"self", "dataset", "timestamp", "formate_function", "generate_message_function",
     "listofData", "data", "metric", "value", "data_timestamp", "message"}

\* the for loop of _generate_message_for_data_list from entry i on.  An entry
\* of three rebinds `timestamp` for the rest of the loop.  The append is made
\* on the name `listOfData`: not a local, so looking it up raises NameError;
\* `listofData`, the list handed to generate_message_function, is never
\* appended to.
RECURSIVE DataListLoop(_, _, _, _, _)
DataListLoop(p, dataset, i, timestamp, listofData) ==
    IF i > Len(dataset)
    THEN [exc |-> "", val |-> listofData]
    ELSE LET data == dataset[i]
             ts   == IF Len(data) = 2 THEN timestamp ELSE data[3]
         IN  IF "listOfData" \notin GenerateLocals
             THEN [exc |-> "NameError", val |-> listofData]
             ELSE DataListLoop(p, dataset, i + 1, ts, listofData)

generate_message_for_data_list(p, dataset, timestamp) ==
    LET loop == DataListLoop(p, dataset, 1, timestamp, <<>>)
    IN  IF loop.exc # "" THEN [exc |-> loop.exc, val |-> <<>>]
        ELSE generate_message_function(p, loop.val)

\* `timestamp or time.time()`: the right operand is taken when the left one
\* is falsy, that is None or 0
IsTruthy(timestamp) == timestamp # None /\ timestamp # 0

\* int(timestamp or time.time())
DefaultTimestamp(timestamp, clock) == IF IsTruthy(timestamp) THEN timestamp ELSE clock

\* ------------------------------------------------------------------ inputs
MetricA == <<97>>
MetricB == <<98>>
\* "\u00e9", outside ASCII
MetricE == <<233>>
Metrics == {MetricA}
Values == {5}
SingleTimestamps == {None, 0, 7}
\* the (metric, timestamp) pairs of the single sends
SingleSamples == {<<m, t>> : m \in Metrics, t \in SingleTimestamps} \cup {<<MetricE, 7>>}
ListTimestamps == {None, 9}
WrapperTimestamps == {None, 7}

\* sequences over S of length at most n
SeqsUpTo(S, n) == UNION {[1..k -> S] : k \in 0..n}

\* (metric, value) and (metric, value, timestamp) entries of a valid dataset
ValidEntries == {<<MetricA, 5>>, <<MetricB, 6, 7>>}
ValidDatasets == SeqsUpTo(ValidEntries, MaxLen)

\* entries whose first component is a metric_dir_list
PathEntries == {<<<<MetricA>>, 5>>, <<<<MetricA, MetricB>>, 6, 7>>}
PathDatasets == SeqsUpTo(PathEntries, MaxLen)
Paths == {<<MetricA>>, <<MetricA, MetricB>>}

\* dict.items() of a dict: (metric, value) pairs in insertion order, keys distinct
DictItems ==
    {d \in SeqsUpTo({<<MetricA, 5>>, <<MetricB, 6>>}, MaxLen) :
        \A i, j \in 1..Len(d) : i # j => d[i][1] # d[j][1]}

\* ------------------------------------------------------------------- state
\* the default of the graphite_port parameter of __init__
DEFAULT_GRAPHITE_PICKLE_PORT == 2004

VARIABLES
    fn,            \* the function applied last to args, "none" before
    args,          \* the arguments of a function applied on its own
    result,        \* what fn returned (val) or raised (exc)
    graphite_server_address,   \* self._graphite_server_address
    constructed,   \* __init__ has returned
    protocol,      \* self.protocol
    reader,        \* self.reader
    writer,        \* self.writer
    link,          \* the transport behind self.writer: "none", "up", "down", "closed"
    now,           \* int(time.time())
    wire,          \* the bytes handed to a live transport, in order
    sent,          \* the messages behind wire: [id, msg], in the order written
    ncalls,        \* calls issued so far; a call's id is its issue number
    call,          \* per caller: the call it is suspended in (pc = "idle" if none)
    last           \* the call that returned or raised last, as its caller saw it

pure == <<fn, args, result>>

\* what __init__ sets and no method assigns again
fixed == <<graphite_server_address, constructed, protocol>>

vars == <<pure, fixed, reader, writer, link, now, wire, sent, ncalls, call, last>>

\* id: issue number; at: the statement of _send_message the call is suspended
\* at; res: "ok" or the exception raised; writes: calls of writer.write;
\* opens: calls of open_connection; conn, up: self.writer and the state of
\* the transport when the call was issued; n, ds, ts: the samples and the
\* timestamp argument; encoded: the (metric, value, timestamp) triples given
\* to data_formate_function; coro: the arguments of a dropped coroutine;
\* env: what open_connection or close did ("ok", or the exception it raised)
NoCall ==
    [id |-> 0, op |-> "none", pc |-> "idle", at |-> 0, res |-> "", writes |-> 0,
     opens |-> 0, msg |-> <<>>, conn |-> "unset", up |-> FALSE, n |-> 0, ds |-> <<>>,
     ts |-> None, encoded |-> <<>>, coro |-> <<>>, env |-> ""]

\* a call that has run to its end without error; the actions override fields
Returned(op, n, ds, ts) ==
    [NoCall EXCEPT !.id = ncalls + 1, !.op = op, !.pc = "done", !.res = "ok",
                   !.conn = writer, !.up = (link = "up"), !.n = n, !.ds = ds, !.ts = ts]

Raised(op, n, ds, ts, exc) == [Returned(op, n, ds, ts) EXCEPT !.res = exc]

NoResult == [exc |-> "", val |-> <<>>]

Init ==
    /\ fn = "none"
    /\ args = <<>>
    /\ result = NoResult
    /\ graphite_server_address = <<"unset", 0>>
    /\ constructed = FALSE
    /\ protocol = "unset"
    /\ reader = "unset"
    /\ writer = "unset"
    /\ link = "none"
    /\ now = 1
    /\ wire = <<>>
    /\ sent = <<>>
    /\ ncalls = 0
    /\ call = [c \in Callers |-> NoCall]
    /\ last = NoCall

\* AIOGraphite.__init__: `self._connect_to_graphite()` builds a coroutine
\* object and drops it; its body never runs, so reader and writer stay unset
New(p) ==
    /\ ~constructed
    /\ constructed' = TRUE
    /\ graphite_server_address' = <<"graphite", DEFAULT_GRAPHITE_PICKLE_PORT>>
    /\ protocol' = p
    /\ UNCHANGED <<pure, reader, writer, link, now, wire, sent, ncalls, call, last>>

\* caller c may issue a call: it is not suspended in one.  Idle callers are
\* interchangeable, so the lowest-numbered idle one issues the next call.
CanCall(c) ==
    /\ constructed
    /\ call[c].pc = "idle"
    /\ \A c2 \in Callers : c2 < c => call[c2].pc # "idle"
    /\ ncalls < MaxCalls

\* the call of caller c ends (returns or raises) as rec
Finish(c, rec) ==
    /\ last' = [rec EXCEPT !.pc = "done", !.at = 0]
    /\ call' = [call EXCEPT ![c] = NoCall]

\* ------------------------------------------------------------ _send_message
SendMessageBody_DrainFirst == <<"drain", "write">>

\* the statements of _send_message; "drain" is its await
SendMessageBody == <<"write", "drain">>

\* _send_message from statement i on, up to its next await.  Both statements
\* read self.writer first (AttributeError when it is unset or None).  write()
\* hands the whole message to the transport in one call; a transport that is
\* down or closed discards it.
RECURSIVE send_message(_, _, _, _)
send_message(i, message, w, n) ==
    IF i > Len(SendMessageBody)
    THEN [pc |-> "done", at |-> 0, res |-> "ok", wire |-> w, writes |-> n]
    ELSE IF writer # "open"
    THEN [pc |-> "done", at |-> 0, res |-> "AttributeError", wire |-> w, writes |-> n]
    ELSE IF SendMessageBody[i] = "write"
    THEN send_message(i + 1, message, IF link = "up" THEN w \o message ELSE w, n + 1)
    ELSE [pc |-> "suspended", at |-> i, res |-> "", wire |-> w, writes |-> n]

\* the effect of running _send_message for call rec of caller c from statement i
RunSendMessage(c, rec, i) ==
    LET r  == send_message(i, rec.msg, wire, rec.writes)
        r2 == [rec EXCEPT !.pc = r.pc, !.at = r.at, !.res = r.res, !.writes = r.writes]
    IN  /\ wire' = r.wire
        /\ sent' = IF r.writes > rec.writes /\ link = "up"
                   THEN Append(sent, [id |-> rec.id, msg |-> rec.msg]) ELSE sent
        /\ IF r.pc = "done"
           THEN Finish(c, r2)
           ELSE call' = [call EXCEPT ![c] = r2] /\ UNCHANGED last

\* --------------------------------------------------------- send operations
\* send_single_valid_metric: default the timestamp, format, encode, then
\* `await self._send_message(message)`
SendSingleValidMetric(c, metric, value, ts) ==
    /\ CanCall(c)
    /\ LET timestamp == DefaultTimestamp(ts, now)
           unit == data_formate_function(protocol, metric, value, timestamp)
           m    == generate_message_function(protocol, <<unit>>)
           rec  == [Returned("send_single_valid_metric", 1, <<<<metric, value>>>>, ts)
                       EXCEPT !.encoded = <<<<metric, value, timestamp>>>>, !.msg = m.val]
       IN  IF m.exc # ""
           THEN Finish(c, [rec EXCEPT !.res = m.exc]) /\ UNCHANGED <<wire, sent>>
           ELSE RunSendMessage(c, rec, 1)
    /\ ncalls' = ncalls + 1
    /\ UNCHANGED <<pure, fixed, reader, writer, link, now>>

\* send_valid_metric_list: default the timestamp, build the message with
\* _generate_message_for_data_list, then `await self._send_message(message)`
SendValidMetricList(c, dataset, ts) ==
    /\ CanCall(c)
    /\ LET timestamp == DefaultTimestamp(ts, now)
           m   == generate_message_for_data_list(protocol, dataset, timestamp)
           rec == [Returned("send_valid_metric_list", Len(dataset), dataset, ts)
                      EXCEPT !.msg = m.val]
       IN  IF m.exc # ""
           THEN Finish(c, [rec EXCEPT !.res = m.exc]) /\ UNCHANGED <<wire, sent>>
           ELSE RunSendMessage(c, rec, 1)
    /\ ncalls' = ncalls + 1
    /\ UNCHANGED <<pure, fixed, reader, writer, link, now>>

\* send_single_metric: sanitize, then `self.send_single_valid_metric(...)`
\* without await: the coroutine object is built and dropped, nothing of
\* send_single_valid_metric runs
SendSingleMetric(c, metric_dir_list, value, ts) ==
    /\ CanCall(c)
    /\ LET valid_metric_name == to_graphite_valid_metric_name(metric_dir_list)
       IN  Finish(c, [Returned("send_single_metric", 1, <<<<metric_dir_list, value>>>>, ts)
                         EXCEPT !.coro = <<valid_metric_name, value, ts>>])
    /\ ncalls' = ncalls + 1
    /\ UNCHANGED <<pure, fixed, reader, writer, link, now, wire, sent>>

\* the two list comprehensions of send_metric_list: every entry is unpacked
\* into as many names as dataset[0] has components
SanitizeDataset(dataset) ==
    IF \E i \in 1..Len(dataset) : Len(dataset[i]) # Len(dataset[1])
    THEN [exc |-> "ValueError", val |-> <<>>]
    ELSE [exc |-> "",
          val |-> [i \in 1..Len(dataset) |->
                     IF Len(dataset[1]) = 2
                     THEN <<to_graphite_valid_metric_name(dataset[i][1]), dataset[i][2]>>
                     ELSE <<to_graphite_valid_metric_name(dataset[i][1]), dataset[i][2],
                            dataset[i][3]>>]]

\* send_metric_list: return on an empty dataset; else sanitize, then
\* `self.send_valid_metric_list(valid_dataset, timestamp)` without await
SendMetricList(c, dataset, ts) ==
    /\ CanCall(c)
    /\ IF Len(dataset) = 0
       THEN Finish(c, Returned("send_metric_list", 0, dataset, ts))
       ELSE LET v == SanitizeDataset(dataset)
            IN  IF v.exc # ""
                THEN Finish(c, Raised("send_metric_list", Len(dataset), dataset, ts, v.exc))
                ELSE Finish(c, [Returned("send_metric_list", Len(dataset), dataset, ts)
                                   EXCEPT !.coro = <<v.val, ts>>])
    /\ ncalls' = ncalls + 1
    /\ UNCHANGED <<pure, fixed, reader, writer, link, now, wire, sent>>

SendValidMetricDict_SetsProtocol(c, items, ts) ==
    /\ CanCall(c)
    /\ Finish(c, [Returned("send_valid_metric_dict", Len(items), items, ts)
                     EXCEPT !.coro = <<items, ts>>])
    /\ ncalls' = ncalls + 1
    /\ protocol' = "PickleProtocol"
    /\ UNCHANGED <<pure, graphite_server_address, constructed, reader, writer, link,
                   now, wire, sent>>

\* send_valid_metric_dict: `self.send_valid_metric_list(dataset.items(), timestamp)`
\* without await
SendValidMetricDict(c, items, ts) ==
    /\ CanCall(c)
    /\ Finish(c, [Returned("send_valid_metric_dict", Len(items), items, ts)
                     EXCEPT !.coro = <<items, ts>>])
    /\ ncalls' = ncalls + 1
    /\ UNCHANGED <<pure, fixed, reader, writer, link, now, wire, sent>>

\* the await of _send_message returns: drain() raises when the connection
\* was lost, else the coroutine goes on with the statement after the await
Resume(c) ==
    /\ call[c].pc = "suspended"
    /\ call[c].op # "connect"
    /\ IF link # "up"
       THEN /\ Finish(c, [call[c] EXCEPT !.res = "ConnectionResetError"])
            /\ UNCHANGED <<wire, sent>>
       ELSE RunSendMessage(c, call[c], call[c].at + 1)
    /\ UNCHANGED <<pure, fixed, reader, writer, link, now, ncalls>>

\* ------------------------------------------------------ connect, disconnect
ConnectOutcomes == {"ok", "gaierror", "ConnectionRefusedError"}

ConnectRaises_Swallowed(outcome) == IF outcome = "gaierror" THEN "ok" ELSE outcome

\* the except clauses of _connect_to_graphite: socket.gaierror becomes
\* AioGraphiteSendException, any other exception is raised as it is
ConnectRaises(outcome) ==
    IF outcome = "gaierror" THEN "AioGraphiteSendException" ELSE outcome

\* _connect_to_graphite up to `await asyncio.open_connection(...)`
Connect(c) ==
    /\ CanCall(c)
    /\ call' = [call EXCEPT ![c] =
                   [Returned("connect", 0, <<>>, None)
                       EXCEPT !.pc = "suspended", !.res = "", !.opens = 1]]
    /\ ncalls' = ncalls + 1
    /\ UNCHANGED <<pure, fixed, reader, writer, link, now, wire, sent, last>>

\* open_connection returns the pair, or raises
ConnectDone(c, outcome) ==
    /\ call[c].pc = "suspended"
    /\ call[c].op = "connect"
    /\ IF outcome = "ok"
       THEN /\ reader' = "open"
            /\ writer' = "open"
            /\ link' = "up"
            /\ Finish(c, [call[c] EXCEPT !.res = "ok", !.env = outcome])
       ELSE /\ Finish(c, [call[c] EXCEPT !.res = ConnectRaises(outcome), !.env = outcome])
            /\ UNCHANGED <<reader, writer, link>>
    /\ UNCHANGED <<pure, fixed, now, wire, sent, ncalls>>

\* what `self.writer.close()` raises ("" when it returns)
CloseOutcome(closeRaises) ==
    IF writer # "open" THEN "AttributeError"
    ELSE IF closeRaises THEN "OSError" ELSE ""

\* the exceptions of the model that derive from Exception
ExceptionClasses == {"AttributeError", "OSError"}

DisconnectCatches_OnlyAttributeError(exc) == exc = "AttributeError"

\* the handlers of disconnect: `except AttributeError`, `except Exception`
DisconnectCatches(exc) == exc = "AttributeError" \/ exc \in ExceptionClasses

\* disconnect: no await in it; the finally clause sets self.writer = None
Disconnect(c, closeRaises) ==
    /\ CanCall(c)
    /\ LET exc == CloseOutcome(closeRaises)
       IN  /\ Finish(c, [(IF exc = "" \/ DisconnectCatches(exc)
                          THEN Returned("disconnect", 0, <<>>, None)
                          ELSE Raised("disconnect", 0, <<>>, None, exc))
                            EXCEPT !.env = IF exc = "" THEN "ok" ELSE exc])
           /\ link' = IF exc = "" THEN "closed" ELSE link
    /\ writer' = "None"
    /\ ncalls' = ncalls + 1
    /\ UNCHANGED <<pure, fixed, reader, now, wire, sent>>

\* the task suspended in caller c's call is cancelled, by cancel() or by the
\* timeout of a wait_for around it: CancelledError is raised at the await.
\* _send_message has no handler, _connect_to_graphite raises it again (line
\* 218 at most), and neither assigns anything on the way out.
Cancel(c) ==
    /\ call[c].pc = "suspended"
    /\ Finish(c, [call[c] EXCEPT !.res = "CancelledError", !.env = "CancelledError"])
    /\ UNCHANGED <<pure, fixed, reader, writer, link, now, wire, sent, ncalls>>

\* ------------------------------------------------------------- environment
\* the peer resets the connection
Reset ==
    /\ link = "up"
    /\ link' = "down"
    /\ UNCHANGED <<pure, fixed, reader, writer, now, wire, sent, ncalls,
                   call, last>>

\* the clock advances
Tick ==
    /\ now < MaxTime
    /\ now' = now + 1
    /\ UNCHANGED <<pure, fixed, reader, writer, link, wire, sent, ncalls,
                   call, last>>

Next ==
    \/ \E p \in Protocols : New(p)
    \/ \E c \in Callers :
        \/ Connect(c)
        \/ \E o \in ConnectOutcomes : ConnectDone(c, o)
        \/ \E b \in BOOLEAN : Disconnect(c, b)
        \/ \E s \in SingleSamples, v \in Values : SendSingleValidMetric(c, s[1], v, s[2])
        \/ \E d \in ValidDatasets, t \in ListTimestamps : SendValidMetricList(c, d, t)
        \/ \E q \in Paths, v \in Values, t \in WrapperTimestamps : SendSingleMetric(c, q, v, t)
        \/ \E d \in PathDatasets, t \in {None} : SendMetricList(c, d, t)
        \/ \E d \in DictItems, t \in {None} : SendValidMetricDict(c, d, t)
        \/ Resume(c)
        \/ Cancel(c)
    \/ Reset
    \/ Tick

Spec == Init /\ [][Next]_vars

\* ------------------------------------- the pure functions applied on their own
MaxBatch == 2         \* longest sequence of samples encoded on its own

\* "a", "b_2e_c"
Identifiers == {<<97>>, <<98, 95, 50, 101, 95, 99>>}
Samples == {<<m, v, t>> : m \in Identifiers, v \in {5, 70000}, t \in {7, 300}}
SampleSeqs == SeqsUpTo(Samples, MaxBatch)

\* "a", "b.c"
Segments == {<<97>>, <<98, 46, 99>>}
SegmentSeqs == SeqsUpTo(Segments, MaxBatch)

\* generate_message_function of PlaintextProtocol on the formatted samples
EncodeLine(l) ==
    /\ fn = "none"
    /\ fn' = "PlaintextProtocol"
    /\ args' = l
    /\ result' = Plaintext_generate_message_function(
                     [i \in 1..Len(l) |->
                         Plaintext_data_formate_function(l[i][1], l[i][2], l[i][3])])
    /\ UNCHANGED <<fixed, reader, writer, link, now, wire, sent, ncalls, call, last>>

\* generate_message_function of PickleProtocol on the formatted samples
EncodePickle(l) ==
    /\ fn = "none"
    /\ fn' = "PickleProtocol"
    /\ args' = l
    /\ result' = Pickle_generate_message_function(
                     [i \in 1..Len(l) |->
                         Pickle_data_formate_function(l[i][1], l[i][2], l[i][3])])
    /\ UNCHANGED <<fixed, reader, writer, link, now, wire, sent, ncalls, call, last>>

\* _to_graphite_valid_metric_name on a metric_dir_list
Sanitize(metric_dir_list) ==
    /\ fn = "none"
    /\ fn' = "_to_graphite_valid_metric_name"
    /\ args' = metric_dir_list
    /\ result' = [exc |-> "", val |-> to_graphite_valid_metric_name(metric_dir_list)]
    /\ UNCHANGED <<fixed, reader, writer, link, now, wire, sent, ncalls, call, last>>

\* the object is used again
Again ==
    /\ fn # "none"
    /\ fn' = "none"
    /\ args' = <<>>
    /\ result' = NoResult
    /\ UNCHANGED <<fixed, reader, writer, link, now, wire, sent, ncalls, call, last>>

PureNext ==
    \/ \E l \in SampleSeqs : EncodeLine(l)
    \/ \E l \in SampleSeqs : EncodePickle(l)
    \/ \E q \in SegmentSeqs : Sanitize(q)
    \/ Again

PureSpec == Init /\ [][PureNext]_vars

\* ================================================================= claims
SendOps ==
    {"send_single_metric", "send_single_valid_metric", "send_metric_list",
     "send_valid_metric_list", "send_valid_metric_dict"}

BatchOps == {"send_metric_list", "send_valid_metric_list", "send_valid_metric_dict"}

\* a call has been issued and has ended; last describes it
Ended == last.id > 0

\* C1: a send operation given at least one sample on a connected client makes
\* exactly one call of writer.write before it returns
C1_ExactlyOneWrite ==
    (Ended /\ last.op \in SendOps /\ last.n >= 1 /\ last.conn = "open" /\ last.res = "ok")
        => last.writes = 1

\* C2: a send operation on a client that is not connected raises
\* NotConnectedError and writes nothing
C2_NotConnectedError ==
    (Ended /\ last.op \in SendOps /\ last.conn # "open")
        => (last.res = "NotConnectedError" /\ last.writes = 0)

\* C3: when the constructor returns the client holds an open reader/writer pair
C3_ConstructorConnects ==
    [][(~constructed /\ constructed') => (reader' = "open" /\ writer' = "open")]_vars

\* the step in which the await of caller c's send raises while the client
\* holds its writer
SendFails(c) ==
    /\ writer = "open"
    /\ call[c].pc = "suspended"
    /\ call[c].op \in SendOps
    /\ call'[c].pc = "idle"
    /\ last'.id = call[c].id
    /\ last'.res \notin {"ok", "CancelledError"}

\* C4: a write or flush that fails raises TransmissionError and leaves the
\* client without a usable writer
C4_WriteFailureDisconnects ==
    [][\A c \in Callers :
          SendFails(c) => (last'.res = "TransmissionError" /\ writer' # "open")]_vars

RECURSIVE FlattenMsgs(_)
FlattenMsgs(log) == IF Len(log) = 0 THEN <<>> ELSE log[1].msg \o FlattenMsgs(Tail(log))

\* C5: the bytes on the wire are the written messages one after the other,
\* each whole, in the order their calls were issued (a call is issued when
\* its coroutine starts to run; its id is its issue number)
C5_OrderedContiguous ==
    /\ wire = FlattenMsgs(sent)
    /\ \A i, j \in 1..Len(sent) : i < j => sent[i].id < sent[j].id

\* two callers are suspended in a send at once and both messages are written
C5_Witness ==
    /\ \A c \in {1, 2} : call[c].pc = "suspended" /\ call[c].op \in SendOps
    /\ Len(sent) = 2
    /\ sent[1].msg # sent[2].msg
    /\ Len(wire) = Len(sent[1].msg) + Len(sent[2].msg)

\* the units a dataset is to be encoded as when D is the default timestamp
ExpectedUnits(ds, D) ==
    [i \in 1..Len(ds) |->
        data_formate_function(protocol, ds[i][1], ds[i][2],
                              IF Len(ds[i]) = 2 THEN D ELSE ds[i][3])]

IsMixed(ds) ==
    /\ \E i \in 1..Len(ds) : Len(ds[i]) = 2
    /\ \E i \in 1..Len(ds) : Len(ds[i]) = 3

\* C6: send_valid_metric_list on a mixed dataset encodes every entry without a
\* timestamp with the one default of the call, every other with its own
C6_MixedTimestamps ==
    (Ended /\ last.op = "send_valid_metric_list" /\ IsMixed(last.ds))
        => /\ last.res # "NameError"
           /\ \E clock \in 1..MaxTime :
                 last.msg = generate_message_function(protocol,
                               ExpectedUnits(last.ds, DefaultTimestamp(last.ts, clock))).val

\* C7: a batch operation given an empty dataset on a connected client returns
\* and writes nothing
C7_EmptyBatchNoOp ==
    (Ended /\ last.op \in BatchOps /\ last.n = 0 /\ last.conn = "open")
        => (last.res = "ok" /\ last.writes = 0)

\* the step is a call of disconnect
DisconnectStep == ncalls' = ncalls + 1 /\ last'.id = ncalls' /\ last'.op = "disconnect"

\* C8: disconnect returns without error from every state and leaves
\* self.writer None; on a client already disconnected it changes nothing
C8_DisconnectIdempotent ==
    [][DisconnectStep =>
          /\ last'.res = "ok"
          /\ writer' = "None"
          /\ (writer = "None" =>
                 UNCHANGED <<constructed, protocol, reader, writer, link, wire, sent>>)]_vars

\* disconnect has run on a client that a disconnect had already closed
C8_Witness ==
    /\ last.op = "disconnect"
    /\ last.conn = "None"
    /\ last.res = "ok"
    /\ reader = "open"
    /\ link = "closed"

\* the step in which the open_connection of caller c's connect raises
ConnectFails(c) ==
    /\ call[c].pc = "suspended"
    /\ call[c].op = "connect"
    /\ call'[c].pc = "idle"
    /\ last'.id = call[c].id
    /\ last'.env # "ok"

\* an error reaches the caller, AioGraphiteSendException exactly for a name
\* resolution failure, after one call of open_connection
ConnectErrorReported ==
    /\ last'.res # "ok"
    /\ (last'.res = "AioGraphiteSendException") = (last'.env = "gaierror")
    /\ last'.opens = 1

C10_SuppliedTimestampKept ==
    \A rec \in {last} \cup {call[c] : c \in Callers} :
        (rec.op = "send_single_valid_metric" /\ rec.ts # None /\ rec.writes >= 1)
            => rec.encoded[1][3] = rec.ts


\* ------------------------------------------------------------ line decoding
\* s.split(sep): the fields of s between the occurrences of sep
RECURSIVE SplitOn(_, _, _)
SplitOn(s, sep, cur) ==
    IF Len(s) = 0 THEN <<cur>>
    ELSE IF s[1] = sep THEN <<cur>> \o SplitOn(Tail(s), sep, <<>>)
    ELSE SplitOn(Tail(s), sep, Append(cur, s[1]))

RECURSIVE ParseDigits(_, _)
ParseDigits(s, acc) ==
    IF Len(s) = 0 THEN acc
    ELSE IF s[1] < 48 \/ s[1] > 57 THEN 0 - 1
    ELSE ParseDigits(Tail(s), 10 * acc + (s[1] - 48))

\* the number a decimal text stands for (-1 if it is not one)
ParseInt(s) == IF Len(s) = 0 THEN 0 - 1 ELSE ParseDigits(s, 0)

Malformed == <<<<>>, 0 - 1, 0 - 1>>

\* what a receiver of the line protocol reads: the message is cut at each
\* newline, each record at each space into identifier, value, timestamp
DecodeLines(msg) ==
    LET parts == SplitOn(msg, 10, <<>>)
    IN  IF parts[Len(parts)] # <<>>
        THEN <<Malformed>>
        ELSE [i \in 1..(Len(parts) - 1) |->
                LET f == SplitOn(parts[i], 32, <<>>)
                IN  IF Len(f) # 3 THEN Malformed
                    ELSE <<f[1], ParseInt(f[2]), ParseInt(f[3])>>]

\* C11: the line message of a sequence of samples is its records
\* "<identifier> <value> <timestamp>\n" one after the other in input order and
\* nothing else: read back record by record it gives the samples again
C11_LineRecordsInOrder ==
    fn = "PlaintextProtocol"
        => /\ result.exc = ""
           /\ DecodeLines(result.val) = args
           /\ Cardinality({i \in 1..Len(result.val) : result.val[i] = 10}) = Len(args)

\* two different samples have been encoded as one line message
C11_Witness ==
    /\ fn = "PlaintextProtocol"
    /\ Len(args) = 2
    /\ args[1] # args[2]
    /\ Len(result.val) > 0


\* ---------------------------------------------------------- frame decoding
\* the number k bytes stand for, least significant first
RECURSIVE FromLittleEndian(_)
FromLittleEndian(b) ==
    IF Len(b) = 0 THEN 0 ELSE b[1] + 256 * FromLittleEndian(Tail(b))

\* struct.unpack("!L", b)
StructUnpackL(b) == ((b[1] * 256 + b[2]) * 256 + b[3]) * 256 + b[4]

\* bytes.decode('utf-8') for sequences of one and two bytes
RECURSIVE Utf8Decode(_)
Utf8Decode(b) ==
    IF Len(b) = 0 THEN <<>>
    ELSE IF b[1] < 128 THEN <<b[1]>> \o Utf8Decode(Tail(b))
    ELSE <<(b[1] - 192) * 64 + (b[2] - 128)>> \o Utf8Decode(Tail(Tail(b)))

\* the unpickler: one opcode of b at position i, on a stack of objects with
\* the stack heights of the open MARKs
RECURSIVE Unpickle(_, _, _, _)
Unpickle(b, i, stack, marks) ==
    LET op  == b[i]
        top == Len(stack)
    IN  IF op = 46 THEN stack[top]                                       \* STOP
        ELSE IF op = 128 THEN Unpickle(b, i + 2, stack, marks)           \* PROTO
        ELSE IF op = 93 THEN Unpickle(b, i + 1, Append(stack, <<>>), marks)  \* EMPTY_LIST
        ELSE IF op = 113 THEN Unpickle(b, i + 2, stack, marks)           \* BINPUT
        ELSE IF op = 40 THEN Unpickle(b, i + 1, stack, Append(marks, top))   \* MARK
        ELSE IF op = 88                                                  \* BINUNICODE
        THEN LET n == FromLittleEndian(SubSeq(b, i + 1, i + 4))
             IN  Unpickle(b, i + 5 + n,
                          Append(stack, Utf8Decode(SubSeq(b, i + 5, i + 4 + n))), marks)
        ELSE IF op = 75 THEN Unpickle(b, i + 2, Append(stack, b[i + 1]), marks)  \* BININT1
        ELSE IF op = 77                                                  \* BININT2
        THEN Unpickle(b, i + 3, Append(stack, FromLittleEndian(SubSeq(b, i + 1, i + 2))), marks)
        ELSE IF op = 74                                                  \* BININT
        THEN LET low  == FromLittleEndian(SubSeq(b, i + 1, i + 3))
                 high == IF b[i + 4] < 128 THEN b[i + 4] ELSE b[i + 4] - 256
             IN  Unpickle(b, i + 5, Append(stack, low + 16777216 * high), marks)
        ELSE IF op = 134                                                 \* TUPLE2
        THEN Unpickle(b, i + 1,
                      Append(SubSeq(stack, 1, top - 2), <<stack[top - 1], stack[top]>>), marks)
        ELSE IF op = 97                                                  \* APPEND
        THEN Unpickle(b, i + 1,
                      Append(SubSeq(stack, 1, top - 2), Append(stack[top - 1], stack[top])),
                      marks)
        ELSE IF op = 101                                                 \* APPENDS
        THEN LET k == marks[Len(marks)]
             IN  Unpickle(b, i + 1,
                          Append(SubSeq(stack, 1, k - 1),
                                 stack[k] \o SubSeq(stack, k + 1, top)),
                          SubSeq(marks, 1, Len(marks) - 1))
        ELSE <<Malformed>>

\* pickle.loads
PickleLoads(b) == Unpickle(b, 1, <<>>, <<>>)

\* C12: a pickle message is a 4-byte big-endian header and a payload, the
\* header holds the length of the message less 4, and unpickling the payload
\* gives the (identifier, (timestamp, value)) tuples of the samples in order
C12_FramedRoundTrip ==
    fn = "PickleProtocol"
        => /\ result.exc = ""
           /\ Len(result.val) > 4
           /\ StructUnpackL(SubSeq(result.val, 1, 4)) = Len(result.val) - 4
           /\ PickleLoads(SubSeq(result.val, 5, Len(result.val)))
                 = [i \in 1..Len(args) |-> <<args[i][1], <<args[i][3], args[i][2]>>>>]

\* two different samples have been encoded as one frame
C12_Witness ==
    /\ fn = "PickleProtocol"
    /\ Len(args) = 2
    /\ args[1] # args[2]
    /\ args[1][2] = 70000
    /\ Len(result.val) > 4

\* ------------------------------------------------------------ the wrappers
\* the entries a wrapper hands to send_valid_metric_list
Delegated(rec) ==
    IF rec.op = "send_metric_list" THEN SanitizeDataset(rec.ds).val ELSE rec.ds

\* C13: send_metric_list and send_valid_metric_dict, given entries on a
\* connected client, put on the wire the one message that encodes the
\* (sanitized) entries in their order
C13_WrappersDelegate ==
    (/\ Ended
     /\ last.op \in {"send_metric_list", "send_valid_metric_dict"}
     /\ last.n >= 1 /\ last.conn = "open" /\ last.up /\ last.res = "ok")
        => /\ last.writes = 1
           /\ Len(sent) >= 1
           /\ sent[Len(sent)].id = last.id
           /\ \E clock \in 1..MaxTime :
                 sent[Len(sent)].msg
                     = generate_message_function(protocol,
                           ExpectedUnits(Delegated(last),
                                         DefaultTimestamp(last.ts, clock))).val

\* C14: _to_graphite_valid_metric_name on an empty list of segments raises
\* InvalidPathError instead of returning an identifier
C14_EmptyPathRaises ==
    (fn = "_to_graphite_valid_metric_name" /\ args = <<>>)
        => result.exc = "InvalidPathError"

\* a call suspended at an await of connect or of a send is cancelled in the step
Cancelled(c) ==
    /\ call[c].pc = "suspended"
    /\ call'[c].pc = "idle"
    /\ last'.id = call[c].id
    /\ last'.res = "CancelledError"

\* C15: when the await of a connect or of a send is cancelled, the client is
\* left without a writer, so that a later send fails as not connected
C15_CancelDisconnects ==
    [][\A c \in Callers : Cancelled(c) => (writer' # "open" /\ reader' # "open")]_vars

\* the characters of the call's metric cannot be encoded by the Line encoder
NonAscii(rec) ==
    /\ protocol = "PlaintextProtocol"
    /\ rec.op = "send_single_valid_metric"
    /\ \E i \in 1..Len(rec.ds[1][1]) : rec.ds[1][1][i] > 127

\* building the message of the call raises before _send_message is reached
BuildRaises(rec) ==
    /\ rec.op = "send_valid_metric_list"
    /\ generate_message_for_data_list(protocol, rec.ds, 0).exc # ""

\* C16: a send whose message cannot be formatted or encoded ends in the step
\* that issues it with that error, has called writer.write no time, and has
\* left the wire, reader, writer and connection as they were
C16_EncodingPrecedesWrite ==
    [][ncalls' = ncalls + 1
         => \A rec \in {last'} \cup {call'[c] : c \in Callers} :
               (rec.id = ncalls' /\ (NonAscii(rec) \/ BuildRaises(rec)))
                  => /\ rec.pc = "done"
                     /\ rec.res = IF NonAscii(rec) THEN "UnicodeEncodeError"
                                  ELSE generate_message_for_data_list(protocol, rec.ds, 0).exc
                     /\ rec.writes = 0
                     /\ UNCHANGED <<wire, sent, reader, writer, link>>]_vars

C16_Witness ==
    /\ last.op = "send_single_valid_metric"
    /\ last.ds[1][1] = MetricE
    /\ last.res = "UnicodeEncodeError"
    /\ last.conn = "open" /\ last.up
    /\ writer = "open"
    /\ Len(sent) >= 1

\* a step of a send operation: one is issued, or a suspended one goes on or ends
SendStep ==
    \/ /\ ncalls' = ncalls + 1
       /\ \E rec \in {last'} \cup {call'[c] : c \in Callers} :
             rec.id = ncalls' /\ rec.op \in SendOps
    \/ \E c \in Callers :
          call[c].pc = "suspended" /\ call[c].op \in SendOps /\ call'[c] # call[c]

C18_ExplicitTimestampForAll ==
    (/\ Ended
     /\ last.op = "send_valid_metric_list"
     /\ IsTruthy(last.ts)
     /\ \E i \in 1..Len(last.ds) : Len(last.ds[i]) = 2)
        => /\ last.res # "NameError"
           /\ last.msg = generate_message_function(protocol,
                             ExpectedUnits(last.ds, last.ts)).val

====
